---- MODULE Spec2Model ----
(***************************************************************************)
(* The authorization decision cache and batcher of the forum backend:     *)
(* OpaService (src/lib/firebase/admin.ts) and the entry points authorize, *)
(* authorizeBatch, authorizeAll and authorizeAny (src/lib/opa/index.ts),    *)
(* and the request wrapper withAuth / handleRequest (src/lib/api/base.ts). *)
(* The handlers of the community routes (create, join, leave, ban, unban,  *)
(* add and remove moderator), of the post vote route and of the report     *)
(* route follow, over the Firestore documents they read and write.         *)
(*                                                                         *)
(* JavaScript values are written as strings: "true" and "false" are the    *)
(* booleans, "undefined" and "null" the two absent values, "str:yes" the   *)
(* string 'yes'.  A string used where an object may also stand (the        *)
(* decision field of an AuthResult) is wrapped as [str |-> s].             *)
(* The clock counts ticks of 15 s, so the default TTL of 30000 ms is 2.    *)
(***************************************************************************)
EXTENDS Integers, Sequences, FiniteSets, TLC

\* ------------------------------------------------------------------ bounds
MaxOps == 2
MaxTime == 3
MaxBatch == 2

\* the requests being served at one time
Procs == {1, 2}

\* ------------------------------------------------------- program constants
\* options.cacheTtlMs ?? 30000, in ticks of 15 s
cacheTtlMs == 2
\* options.cacheEnabled ?? true, as the singleton opaService is constructed
cacheEnabled == TRUE

\* ------------------------------------------------------------ input values
NoToken == "null"
Tokens == {NoToken, "tokA", "tokA2"}

\* what verifyIdToken decodes: both tokens belong to user u1, issued with
\* different custom claims
DecodedToken(idToken) ==
    IF idToken = "tokA"
    THEN [uid |-> "u1", email |-> "a@x.org", role |-> "member"]
    ELSE [uid |-> "u1", email |-> "a@x.org", role |-> "moderator"]

Ips == {"undefined", "10.0.0.1"}

\* a resource object is the sequence of its (field, value) pairs in
\* insertion order, which is the order JSON.stringify writes them in
PostFields == <<<<"type", "post">>, <<"id", "1">>>>
PostFieldsSwapped == <<<<"id", "1">>, <<"type", "post">>>>
OtherPost == <<<<"id", "2">>>>

\* the (field, value) pairs of a resource, whatever their order
Fields(resource) == {resource[i] : i \in DOMAIN resource}

Items ==
    {[action |-> "read_post", resource |-> PostFields],
     [action |-> "read_post", resource |-> PostFieldsSwapped],
     [action |-> "vote_post", resource |-> OtherPost]}

RECURSIVE SeqsUpTo(_, _)
SeqsUpTo(S, n) ==
    IF n = 0 THEN {<<>>}
    ELSE LET shorter == SeqsUpTo(S, n - 1)
         IN shorter \cup {Append(s, x) : s \in {t \in shorter : Len(t) = n - 1}, x \in S}

\* ------------------------------------------------------------- JS helpers
Truthy(v) == v \notin {"false", "undefined", "null", "num:0", "str:"}
JsBool(b) == IF b THEN "true" ELSE "false"
JsString(s) == [str |-> s]
Null == [null |-> TRUE]

\* ------------------------------------------------------- policy responses
\* the values the endpoint may put in result.allow
AllowValues == {"true", "false", "undefined", "str:yes"}

\* what one POST to the policy endpoint may come to
Responses ==
    {[kind |-> k, allow |-> "undefined"] :
        k \in {"network-error", "http-500", "bad-json", "json-null", "no-result"}}
    \cup {[kind |-> "result", allow |-> a] : a \in AllowValues}

\* fetch rejects; res.ok is false; res.json() rejects; the body is the JSON null
Failure(resp) == resp.kind \in {"network-error", "http-500", "bad-json", "json-null"}

\* the message of the Error a failed call is rejected with
ErrorMessage(resp) ==
    CASE resp.kind = "network-error" -> "fetch failed"
      [] resp.kind = "http-500" -> "OPA call failed 500: internal error"
      [] resp.kind = "bad-json" -> "Unexpected token < in JSON at position 0"
      [] resp.kind = "json-null" -> "Cannot read properties of null (reading 'result')"
      [] OTHER -> "none"

Ok(value) == [ok |-> TRUE, value |-> value]
Throw(message) == [ok |-> FALSE, message |-> message]

\* ------------------------------------------------------------- OpaService
OpaInput(uid, tokenClaims, action, resource, nowIso, ip) ==
    [uid |-> uid, tokenClaims |-> tokenClaims, action |-> action,
     resource |-> resource,
     env |-> [now |-> nowIso, ip |-> IF ip = "undefined" THEN "null" ELSE ip]]

RECURSIVE StringifyFields(_)
StringifyFields(resource) ==
    IF resource = <<>> THEN <<>>
    ELSE <<Head(resource)[1], Head(resource)[2]>> \o StringifyFields(Tail(resource))

\* a key made of the whole input: JSON.stringify(input)
getCacheKeyWholeInput(input) ==
    <<"uid", input.uid, "tokenClaims", input.tokenClaims.email, input.tokenClaims.role,
      "action", input.action, "resource">>
        \o StringifyFields(input.resource) \o <<"env", input.env.ip>>

\* the JSON text of {uid, action, resource}, as its sequence of tokens
getCacheKey(input) ==
    <<"uid", input.uid, "action", input.action, "resource">>
        \o StringifyFields(input.resource)

\* getCachedDecision that never looks at the expiry
getCachedDecisionNoExpiry(c, key, t) ==
    IF ~cacheEnabled THEN Null
    ELSE IF key \in DOMAIN c THEN c[key].decision
    ELSE Null

\* getCachedDecision with the cacheEnabled test inverted
getCachedDecisionDisabled(c, key, t) ==
    IF cacheEnabled THEN Null
    ELSE IF key \in DOMAIN c /\ c[key].expiry > t THEN c[key].decision
    ELSE Null

\* getCachedDecision with the expiry test off by one (expiry >= Date.now())
getCachedDecisionAtExpiry(c, key, t) ==
    IF ~cacheEnabled THEN Null
    ELSE IF key \in DOMAIN c /\ c[key].expiry >= t THEN c[key].decision
    ELSE Null

\* the value getCachedDecision returns
getCachedDecision(c, key, t) ==
    IF ~cacheEnabled THEN Null
    ELSE IF key \in DOMAIN c /\ c[key].expiry > t THEN c[key].decision
    ELSE Null

\* the cache getCachedDecision leaves behind
CacheAfterGet(c, key, t) ==
    IF ~cacheEnabled THEN c
    ELSE IF key \in DOMAIN c /\ c[key].expiry > t THEN c
    ELSE IF key \in DOMAIN c THEN [k \in DOMAIN c \ {key} |-> c[k]]
    ELSE c

\* cacheDecision that leaves an entry that is already there as it is
cacheDecisionKeepsExisting(c, key, decision, t) ==
    IF ~cacheEnabled \/ key \in DOMAIN c THEN c
    ELSE [k \in DOMAIN c \cup {key} |->
            IF k = key THEN [decision |-> decision, expiry |-> t + cacheTtlMs]
            ELSE c[k]]

\* cacheDecision that forgets to add the TTL (expiry: Date.now())
cacheDecisionNoTtl(c, key, decision, t) ==
    IF ~cacheEnabled THEN c
    ELSE [k \in DOMAIN c \cup {key} |->
            IF k = key THEN [decision |-> decision, expiry |-> t]
            ELSE c[k]]

\* the cache after cacheDecision
cacheDecision(c, key, decision, t) ==
    IF ~cacheEnabled THEN c
    ELSE [k \in DOMAIN c \cup {key} |->
            IF k = key THEN [decision |-> decision, expiry |-> t + cacheTtlMs]
            ELSE c[k]]

\* query after its fetch has settled: what it returns or throws
QueryOutcome(resp) ==
    IF Failure(resp) THEN Throw(ErrorMessage(resp))
    ELSE IF resp.kind = "no-result"
         THEN Ok([allow |-> "false", reason |-> "no decision returned"])
    ELSE Ok([allow |-> resp.allow, reason |-> "policy"])

\* a query that stores what it makes of any outcome, the deny of an error too
QueryStoreAnyOutcome(c, key, resp, t) ==
    IF QueryOutcome(resp).ok
    THEN cacheDecision(c, key, QueryOutcome(resp).value, t)
    ELSE cacheDecision(c, key, [allow |-> "false", reason |-> ErrorMessage(resp)], t)

\* a query that returns its decision without storing it
QueryStoreNothing(c, key, resp, t) == c

\* the cache query leaves behind after its fetch has settled
QueryStore(c, key, resp, t) ==
    IF QueryOutcome(resp).ok
    THEN cacheDecision(c, key, QueryOutcome(resp).value, t)
    ELSE c

\* isAllowed, given what query returned or threw
isAllowed(outcome) ==
    IF outcome.ok
    THEN Ok([allow |-> JsBool(outcome.value # Null /\ outcome.value.allow = "true"),
             decision |-> outcome.value])
    ELSE outcome

\* an item's query without the try/catch around it
BatchItemResultNoCatch(index, outcome) ==
    IF outcome.ok
    THEN [index |-> index, allow |-> outcome.value.allow, decision |-> outcome.value]
    ELSE outcome

\* one element of the list queryBatch returns, from what query returned or
\* threw (the try/catch around each item's query)
BatchItemResult(index, outcome) ==
    IF outcome.ok
    THEN [index |-> index, allow |-> outcome.value.allow, decision |-> outcome.value]
    ELSE [index |-> index, allow |-> "false",
          decision |-> [allow |-> "false", reason |-> outcome.message]]

Pending == [pending |-> TRUE]

\* what one call of getCachedDecision(getCacheKey(input)) at time t saw and did,
\* c and o being the cache and the history of its entries (history: no
\* operation reads it).  alike: the entries then in the cache that were stored
\* for the same uid and action and a resource with the same fields.
Lookup(c, o, input, t) ==
    LET key == getCacheKey(input)
    IN [key |-> key, at |-> t,
        had |-> key \in DOMAIN c,
        expiry |-> IF key \in DOMAIN c THEN c[key].expiry ELSE -1,
        storedAt |-> IF key \in DOMAIN c THEN o[key].storedAt ELSE -1,
        entry |-> IF key \in DOMAIN c THEN c[key].decision ELSE Null,
        ret |-> getCachedDecision(c, key, t),
        gone |-> key \notin DOMAIN CacheAfterGet(c, key, t),
        alike |-> {[decision |-> c[k].decision, by |-> o[k]] :
                    k \in {x \in DOMAIN c :
                             /\ o[x].uid = input.uid
                             /\ o[x].action = input.action
                             /\ Fields(o[x].resource) = Fields(input.resource)}}]

\* queryBatch's first loop: the cache is asked for every item in input order
RECURSIVE queryBatchLoop(_, _, _, _)
queryBatchLoop(st, inputs, i, t) ==
    IF i > Len(inputs) THEN st
    ELSE LET key == getCacheKey(inputs[i])
             cached == getCachedDecision(st.cache, key, t)
         IN queryBatchLoop(
              [cache |-> CacheAfterGet(st.cache, key, t),
               results |->
                   IF cached # Null
                   THEN Append(st.results,
                               [index |-> i - 1, allow |-> cached.allow, decision |-> cached])
                   ELSE st.results,
               uncachedItems |->
                   IF cached # Null THEN st.uncachedItems
                   ELSE Append(st.uncachedItems, i - 1),
               origin |-> st.origin,
               looked |-> Append(st.looked, Lookup(st.cache, st.origin, inputs[i], t))],
              inputs, i + 1, t)

\* the synchronous part of the query() calls made for the uncached items: each
\* asks the cache again and, on a miss, starts its fetch
RECURSIVE queryBatchDispatch(_, _, _, _, _)
queryBatchDispatch(st, inputs, uncachedItems, j, t) ==
    IF j > Len(uncachedItems) THEN st
    ELSE LET index == uncachedItems[j]
             key == getCacheKey(inputs[index + 1])
             cached == getCachedDecision(st.cache, key, t)
         IN queryBatchDispatch(
              [cache |-> CacheAfterGet(st.cache, key, t),
               opaResults |->
                   Append(st.opaResults,
                          IF cached # Null THEN BatchItemResult(index, Ok(cached))
                          ELSE Pending),
               fetches |-> IF cached # Null THEN st.fetches ELSE st.fetches + 1],
              inputs, uncachedItems, j + 1, t)

\* Array.prototype.sort((a, b) => a.index - b.index), as an insertion sort
RECURSIVE InsertByIndex(_, _)
InsertByIndex(r, sorted) ==
    IF sorted = <<>> THEN <<r>>
    ELSE IF r.index < Head(sorted).index THEN <<r>> \o sorted
    ELSE <<Head(sorted)>> \o InsertByIndex(r, Tail(sorted))

RECURSIVE SortByIndex(_)
SortByIndex(results) ==
    IF results = <<>> THEN <<>>
    ELSE InsertByIndex(results[Len(results)], SortByIndex(SubSeq(results, 1, Len(results) - 1)))

\* queryBatch without the final sort
queryBatchReturnUnsorted(results, opaResults) == results \o opaResults

\* the list queryBatch returns: cached results, then fresh ones, sorted
queryBatchReturn(results, opaResults) == SortByIndex(results \o opaResults)

\* ------------------------------------------------------------ entry points
NoClaims == [uid |-> "undefined", email |-> "undefined", role |-> "undefined"]

\* verifyToken that swallows the rejection of verifyIdToken and goes on with
\* what it can decode of the token
verifyTokenSwallows(idToken, accepted) ==
    Ok([uid |-> DecodedToken(idToken).uid, claims |-> DecodedToken(idToken)])

\* verifyToken, given whether verifyIdToken accepted the token
verifyToken(idToken, accepted) ==
    IF accepted
    THEN Ok([uid |-> DecodedToken(idToken).uid, claims |-> DecodedToken(idToken)])
    ELSE Throw("Invalid ID token")

NoTokenResult ==
    [allow |-> "false", decision |-> JsString("no-token"), uid |-> "null", claims |-> NoClaims]

\* a catch block that logs and throws the error on
authorizeCatchRethrows(thrown) == thrown

\* the catch block of authorize
authorizeCatch(thrown) ==
    Ok([allow |-> "false", decision |-> JsString(thrown.message),
        uid |-> "null", claims |-> NoClaims])

\* what authorize returns once isAllowed (or verifyToken) has settled
authorizeReturn(uid, claims, outcome) ==
    IF outcome.ok
    THEN Ok([allow |-> outcome.value.allow, decision |-> outcome.value.decision,
             uid |-> uid, claims |-> claims])
    ELSE authorizeCatch(outcome)

\* a deny list that numbers every element 0
authorizeBatchDenyNoIndex(requests, message) ==
    [i \in 1..Len(requests) |->
        [allow |-> "false", decision |-> JsString(message), uid |-> "null",
         claims |-> NoClaims, index |-> 0]]

\* requests.map((_, index) => deny) of authorizeBatch: no token, or its catch
authorizeBatchDeny(requests, message) ==
    [i \in 1..Len(requests) |->
        [allow |-> "false", decision |-> JsString(message), uid |-> "null",
         claims |-> NoClaims, index |-> i - 1]]

\* opaResults.map(...) of authorizeBatch
authorizeBatchMap(opaResults, uid, claims) ==
    [i \in 1..Len(opaResults) |->
        [allow |-> opaResults[i].allow, decision |-> opaResults[i].decision,
         uid |-> uid, claims |-> claims, index |-> opaResults[i].index]]

every(results) == \A i \in 1..Len(results) : Truthy(results[i].allow)
some(results) == \E i \in 1..Len(results) : Truthy(results[i].allow)

\* what the entry point `op` makes of authorizeBatch's list
BatchOps == {"authorizeBatch", "authorizeAll", "authorizeAny"}
batchReturn(op, results) ==
    CASE op = "authorizeAll" -> Ok([allAllowed |-> JsBool(every(results)), results |-> results])
      [] op = "authorizeAny" -> Ok([anyAllowed |-> JsBool(some(results)), results |-> results])
      [] OTHER -> Ok([results |-> results])

\* ------------------------------------------------------------------- state
VARIABLES
    now,      \* Date.now(), in ticks
    cache,    \* OpaService.cache: key -> [decision, expiry]
    pc,       \* where each caller is: idle, fetch, gather, done
    req,      \* the arguments of the entry point each caller is in
    frame,    \* its locals: uid, claims, results, uncachedItems, opaResults
    ret,      \* what the entry point returned (Ok) or threw (Throw)
    hist,     \* history of the call: cache lookups, fetches issued, responses
    origin,   \* history of each cache entry: when and for which input it was stored
    cleared,  \* history of clearCache: TRUE from a clear until the next check that
              \* asks the service
    http,     \* the request handleRequest is serving for each caller, its response
    ops,      \* entry-point calls made so far
    db,       \* the Firestore documents the route handlers read and write
    run,      \* the route handler each caller is in: its request, the await it
              \* is at, the snapshots it has read, its response
    served    \* history of the routes: requests begun, users banned and not unbanned

\* the state of the policy layer, and the state of the route handlers
opaVars == <<now, cache, pc, req, frame, ret, hist, origin, cleared, http, ops>>
routeVars == <<db, run, served>>
vars == <<opaVars, routeVars>>

NoReq == [op |-> "none", idToken |-> NoToken, requests |-> <<>>, ip |-> "undefined"]
NoFrame ==
    [uid |-> "null", claims |-> NoClaims, at |-> 0,
     results |-> <<>>, uncachedItems |-> <<>>, opaResults |-> <<>>]
\* verify: whether verifyIdToken was called, and whether it accepted the token
NoHist == [looked |-> <<>>, fetched |-> 0, resps |-> <<>>, verify |-> "none"]
Verified(accepted) == IF accepted THEN "accepted" ELSE "rejected"
NoResp == [kind |-> "none", allow |-> "undefined"]
EmptyMap == [k \in {} |-> Null]

\* no request in handleRequest.  stage: none, authorize (authorize is to be
\* called or has not returned yet), responded; allow: what authorize returned;
\* handled: how many times options.handler was run for the request
NoHttp ==
    [stage |-> "none", requireAuth |-> TRUE, idToken |-> NoToken,
     item |-> Null, ip |-> "null", allow |-> "none", status |-> 0, handled |-> 0]

\* ------------------------------------------------- Firestore documents
\* the users of the platform; every one of them has a users document
Users == {"u1", "u2", "u3"}

\* a snapshot with exists = false
NoDoc == [exists |-> FALSE]

\* a memberships document, with the fields the handlers read and write
Membership(role, isBanned) == [exists |-> TRUE, role |-> role, isBanned |-> isBanned]
DEFAULT_MEMBERSHIP == Membership("member", FALSE)

\* a communities document (the owner is the first member); moderatorIds is an
\* array without duplicates, kept as a set
DEFAULT_COMMUNITY ==
    [exists |-> TRUE, ownerId |-> "null", memberCount |-> 1, moderatorIds |-> {}]

\* roleHierarchy of the ban route
roleHierarchy == [member |-> 0, moderator |-> 1, admin |-> 2, owner |-> 3]

\* a published post of u1 nobody has voted on
DEFAULT_POST_METRICS == [upvotes |-> 0, downvotes |-> 0, score |-> 0]
DEFAULT_POST == [exists |-> TRUE, authorId |-> "u1", metrics |-> DEFAULT_POST_METRICS]

\* the post ids a request may name: p1 is the post, p9 is no document
PostIds == {"p1", "p9"}

\* a votes document, and the id that addresses it
Vote(value) == [exists |-> TRUE, value |-> value]
getVoteId(userId, targetId, targetType) ==
    userId \o "_" \o targetType \o "_" \o targetId
VoteIds == {getVoteId(u, t, "post") : u \in Users, t \in PostIds}

\* a report nobody has resolved
DEFAULT_REPORT ==
    [exists |-> TRUE, status |-> "pending", resolvedBy |-> "null",
     resolutionNote |-> "null"]

\* the documents before any community was created: memberships by user (one
\* community), votes by id, the post p1, its author's karma, one report
NoCommunityDb ==
    [community |-> NoDoc,
     memberships |-> [u \in Users |-> NoDoc],
     votes |-> [id \in VoteIds |-> NoDoc],
     post |-> DEFAULT_POST,
     karma |-> 0,
     report |-> DEFAULT_REPORT]

\* no request in a route handler.  at: the await the handler is at (idle,
\* community, requester, target, post, vote, report, update, updated, commit,
\* done); the snapshots are what its reads returned; status: the status of
\* its response
NoRun ==
    [op |-> "none", at |-> "idle", uid |-> "null", userId |-> "null",
     role |-> "null", postId |-> "null", value |-> 0, resolution |-> "null",
     resolutionNote |-> "null",
     communityData |-> NoDoc, requesterMembership |-> NoDoc,
     targetMembership |-> NoDoc, postData |-> NoDoc, existingVote |-> NoDoc,
     data |-> NoDoc, status |-> 0]

\* no route request has begun and nobody is banned
NoneServed == [requests |-> 0, banned |-> {}]

\* new OpaService(): an empty cache; no request in progress
InitOpa ==
    /\ now = 0
    /\ cache = EmptyMap
    /\ origin = EmptyMap
    /\ cleared = FALSE
    /\ http = [p \in Procs |-> NoHttp]
    /\ pc = [p \in Procs |-> "idle"]
    /\ req = [p \in Procs |-> NoReq]
    /\ frame = [p \in Procs |-> NoFrame]
    /\ ret = [p \in Procs |-> Null]
    /\ hist = [p \in Procs |-> NoHist]
    /\ ops = 0

\* the documents d in Firestore and no request in a route handler
InitRoutes(d) ==
    /\ db = d
    /\ run = [p \in Procs |-> NoRun]
    /\ served = NoneServed

\* the server has started: no community has been created yet
Init == InitOpa /\ InitRoutes(NoCommunityDb)

\* the history of the entries that are still in the cache
Restrict(f, c) == [k \in DOMAIN f \cap DOMAIN c |-> f[k]]

\* the OpaInput of request i (from 1) of caller p
InputOf(p, i) ==
    OpaInput(frame[p].uid, frame[p].claims, req[p].requests[i].action,
             req[p].requests[i].resource, frame[p].at, req[p].ip)

\* the history of an entry stored now for request i of caller p
StoredBy(p, i) ==
    [storedAt |-> now, op |-> req[p].op, uid |-> InputOf(p, i).uid,
     action |-> InputOf(p, i).action, resource |-> InputOf(p, i).resource,
     tokenClaims |-> InputOf(p, i).tokenClaims, ip |-> InputOf(p, i).env.ip]

\* authorize(idToken, action, resource, context) up to its fetch: the token
\* test, verifyToken (accepted: whether verifyIdToken accepts the token),
\* isAllowed and query as far as the await of fetch.  verifyToken's await reads
\* and writes nothing of the service, so the step is taken at the instant its
\* continuation runs.
authorize(p, idToken, item, ip, accepted) ==
    /\ pc[p] = "idle"
    /\ ops < MaxOps
    /\ ops' = ops + 1
    /\ req' = [req EXCEPT ![p] =
                 [op |-> "authorize", idToken |-> idToken, requests |-> <<item>>, ip |-> ip]]
    /\ IF idToken = NoToken
       THEN /\ pc' = [pc EXCEPT ![p] = "done"]
            /\ ret' = [ret EXCEPT ![p] = Ok(NoTokenResult)]
            /\ UNCHANGED <<cache, frame, hist, origin>>
       ELSE LET v == verifyToken(idToken, accepted)
            IN IF ~v.ok
               THEN /\ ret' = [ret EXCEPT ![p] = authorizeReturn("null", NoClaims, v)]
                    /\ pc' = [pc EXCEPT ![p] = "done"]
                    /\ hist' = [hist EXCEPT ![p] =
                                  [NoHist EXCEPT !.verify = Verified(accepted)]]
                    /\ UNCHANGED <<cache, frame, origin>>
               ELSE LET input == OpaInput(v.value.uid, v.value.claims, item.action,
                                          item.resource, now, ip)
                        key == getCacheKey(input)
                        cached == getCachedDecision(cache, key, now)
                    IN /\ cache' = CacheAfterGet(cache, key, now)
                       /\ origin' = Restrict(origin, cache')
                       /\ frame' = [frame EXCEPT ![p] =
                                      [NoFrame EXCEPT !.uid = v.value.uid,
                                                      !.claims = v.value.claims,
                                                      !.at = now]]
                       /\ hist' = [hist EXCEPT ![p] =
                                     [looked |-> <<Lookup(cache, origin, input, now)>>,
                                      fetched |-> IF cached # Null THEN 0 ELSE 1,
                                      resps |-> <<NoResp>>,
                                      verify |-> Verified(accepted)]]
                       /\ IF cached # Null
                          THEN /\ ret' = [ret EXCEPT ![p] =
                                      authorizeReturn(v.value.uid, v.value.claims,
                                                      isAllowed(Ok(cached)))]
                               /\ pc' = [pc EXCEPT ![p] = "done"]
                          ELSE /\ ret' = ret
                               /\ pc' = [pc EXCEPT ![p] = "fetch"]
    /\ cleared' = (cleared /\ ~(idToken # NoToken /\ accepted))
    /\ UNCHANGED <<now, http, routeVars>>

\* the fetch of query settles: the rest of query, isAllowed and authorize
authorizeSettled(p, resp) ==
    /\ pc[p] = "fetch"
    /\ LET key == getCacheKey(InputOf(p, 1))
       IN /\ cache' = QueryStore(cache, key, resp, now)
          /\ origin' =
               IF QueryOutcome(resp).ok /\ cacheEnabled
               THEN [k \in DOMAIN cache' |->
                       IF k = key
                       THEN StoredBy(p, 1) ELSE origin[k]]
               ELSE origin
    /\ ret' = [ret EXCEPT ![p] =
                 authorizeReturn(frame[p].uid, frame[p].claims, isAllowed(QueryOutcome(resp)))]
    /\ hist' = [hist EXCEPT ![p].resps = <<resp>>]
    /\ pc' = [pc EXCEPT ![p] = "done"]
    /\ UNCHANGED <<now, req, frame, cleared, http, ops, routeVars>>

\* authorizeBatch(idToken, requests), called directly or by authorizeAll or
\* authorizeAny (op), up to the Promise.all of queryBatch: the token test,
\* verifyToken, the cache loop and the start of one query per uncached item.
\* ip is requests[0]?.context?.ip.
authorizeBatch(p, op, idToken, requests, ip, accepted) ==
    /\ pc[p] = "idle"
    /\ ops < MaxOps
    /\ ops' = ops + 1
    /\ req' = [req EXCEPT ![p] =
                 [op |-> op, idToken |-> idToken, requests |-> requests, ip |-> ip]]
    /\ IF idToken = NoToken
       THEN /\ pc' = [pc EXCEPT ![p] = "done"]
            /\ ret' = [ret EXCEPT ![p] =
                         batchReturn(op, authorizeBatchDeny(requests, "no-token"))]
            /\ UNCHANGED <<cache, frame, hist, origin>>
       ELSE LET v == verifyToken(idToken, accepted)
            IN IF ~v.ok
               THEN /\ ret' = [ret EXCEPT ![p] =
                              batchReturn(op, authorizeBatchDeny(requests, v.message))]
                    /\ pc' = [pc EXCEPT ![p] = "done"]
                    /\ hist' = [hist EXCEPT ![p] =
                                  [NoHist EXCEPT !.verify = Verified(accepted)]]
                    /\ UNCHANGED <<cache, frame, origin>>
               ELSE LET inputs == [i \in 1..Len(requests) |->
                                     OpaInput(v.value.uid, v.value.claims,
                                              requests[i].action, requests[i].resource,
                                              now, ip)]
                        loop == queryBatchLoop(
                                   [cache |-> cache, origin |-> origin, results |-> <<>>,
                                    uncachedItems |-> <<>>, looked |-> <<>>],
                                   inputs, 1, now)
                        sent == queryBatchDispatch(
                                   [cache |-> loop.cache, opaResults |-> <<>>,
                                    fetches |-> 0],
                                   inputs, loop.uncachedItems, 1, now)
                    IN /\ cache' = sent.cache
                       /\ origin' = Restrict(origin, cache')
                       /\ hist' = [hist EXCEPT ![p] =
                                     [looked |-> loop.looked, fetched |-> sent.fetches,
                                      resps |-> [i \in 1..Len(requests) |-> NoResp],
                                      verify |-> Verified(accepted)]]
                       /\ frame' = [frame EXCEPT ![p] =
                                      [uid |-> v.value.uid, claims |-> v.value.claims,
                                       at |-> now, results |-> loop.results,
                                       uncachedItems |-> loop.uncachedItems,
                                       opaResults |-> sent.opaResults]]
                       /\ IF loop.uncachedItems = <<>>
                          THEN /\ ret' = [ret EXCEPT ![p] =
                                      batchReturn(op,
                                          authorizeBatchMap(
                                              queryBatchReturn(loop.results, <<>>),
                                              v.value.uid, v.value.claims))]
                               /\ pc' = [pc EXCEPT ![p] = "done"]
                          ELSE /\ ret' = ret
                               /\ pc' = [pc EXCEPT ![p] = "gather"]
    /\ cleared' = (cleared /\ ~(idToken # NoToken /\ accepted))
    /\ UNCHANGED <<now, http, routeVars>>

\* the fetch of the j-th uncached item settles: the rest of its query and the
\* try/catch around it
queryBatchItemSettled(p, j, resp) ==
    /\ pc[p] = "gather"
    /\ j \in 1..Len(frame[p].opaResults)
    /\ frame[p].opaResults[j] = Pending
    /\ LET index == frame[p].uncachedItems[j]
           key == getCacheKey(InputOf(p, index + 1))
       IN /\ cache' = QueryStore(cache, key, resp, now)
          /\ origin' =
               IF QueryOutcome(resp).ok /\ cacheEnabled
               THEN [k \in DOMAIN cache' |->
                       IF k = key THEN StoredBy(p, index + 1) ELSE origin[k]]
               ELSE origin
          /\ frame' = [frame EXCEPT ![p].opaResults[j] =
                         BatchItemResult(index, QueryOutcome(resp))]
          /\ hist' = [hist EXCEPT ![p].resps[index + 1] = resp]
    /\ UNCHANGED <<now, pc, req, ret, cleared, http, ops, routeVars>>

\* every item has settled: Promise.all resolves and queryBatch merges and sorts,
\* or Promise.all rejects and the catch of authorizeBatch denies every request;
\* authorizeBatch maps, the entry point returns
queryBatchResolved(p) ==
    /\ pc[p] = "gather"
    /\ \A j \in 1..Len(frame[p].opaResults) : frame[p].opaResults[j] # Pending
    /\ LET thrown == {j \in 1..Len(frame[p].opaResults) :
                         "message" \in DOMAIN frame[p].opaResults[j]}
       IN ret' = [ret EXCEPT ![p] =
                    IF thrown # {}
                    THEN batchReturn(req[p].op,
                             authorizeBatchDeny(req[p].requests,
                                 frame[p].opaResults[CHOOSE j \in thrown : TRUE].message))
                    ELSE batchReturn(req[p].op,
                             authorizeBatchMap(
                                 queryBatchReturn(frame[p].results, frame[p].opaResults),
                                 frame[p].uid, frame[p].claims))]
    /\ pc' = [pc EXCEPT ![p] = "done"]
    /\ UNCHANGED <<now, cache, req, frame, hist, origin, cleared, http, ops, routeVars>>

\* the caller takes the result; the next request may start
Return(p) ==
    /\ pc[p] = "done"
    /\ pc' = [pc EXCEPT ![p] = "idle"]
    /\ req' = [req EXCEPT ![p] = NoReq]
    /\ frame' = [frame EXCEPT ![p] = NoFrame]
    /\ ret' = [ret EXCEPT ![p] = Null]
    /\ hist' = [hist EXCEPT ![p] = NoHist]
    /\ UNCHANGED <<now, cache, origin, cleared, http, ops, routeVars>>

\* time passes
Tick ==
    /\ now < MaxTime
    /\ now' = now + 1
    /\ UNCHANGED <<cache, pc, req, frame, ret, hist, origin, cleared, http, ops, routeVars>>

\* OpaService.clearCache()
clearCache ==
    /\ cache' = EmptyMap
    /\ origin' = EmptyMap
    /\ cleared' = TRUE
    /\ UNCHANGED <<now, pc, req, frame, ret, hist, http, ops, routeVars>>

\* ------------------------------------------------------------ lib/api/base
\* the Authorization header of a request: absent, or a scheme and credentials
NoHeader == [scheme |-> "none", credentials |-> ""]
Headers ==
    {NoHeader,
     [scheme |-> "Bearer", credentials |-> "tokA"],
     [scheme |-> "Bearer", credentials |-> ""],
     [scheme |-> "Basic", credentials |-> "tokA"]}

\* extractToken: the match of /^Bearer (.+)$/, or null
extractToken(header) ==
    IF header.scheme = "Bearer" /\ header.credentials # ""
    THEN header.credentials
    ELSE NoToken

\* what parseBody and the resource function of the route come to
Preparations == {"ok", "invalid-body", "resource-throws"}

\* the response once authorize has returned, when a deny is not looked at
afterAuthorizeIgnoresDeny(authResult, handlerOk) ==
    [allow |-> authResult.allow, handled |-> 1,
     status |-> IF handlerOk THEN 200 ELSE 500]

\* the rest of handleRequest once authorize has returned authResult: a deny
\* throws AuthorizationError (403); else the handler runs and responds, or
\* throws (handleError, 500)
afterAuthorize(authResult, handlerOk) ==
    IF ~Truthy(authResult.allow)
    THEN [allow |-> authResult.allow, handled |-> 0, status |-> 403]
    ELSE [allow |-> authResult.allow, handled |-> 1,
          status |-> IF handlerOk THEN 200 ELSE 500]

\* handleRequest(req, options) up to its call of authorize: the token is
\* extracted, a route that requires one answers 401 without it; the body is
\* parsed (ValidationError, 400) and the resource built (an Error, 500); a
\* route that requires no authentication runs its handler at once
handleRequest(p, header, requireAuth, prepared, item, ip, handlerOk) ==
    /\ pc[p] = "idle"
    /\ http[p].stage \in {"none", "responded"}
    /\ ops < MaxOps
    /\ LET idToken == extractToken(header)
           start == [NoHttp EXCEPT !.requireAuth = requireAuth, !.idToken = idToken,
                                   !.item = item, !.ip = ip]
       IN IF requireAuth /\ idToken = NoToken
          THEN /\ http' = [http EXCEPT ![p] =
                              [start EXCEPT !.stage = "responded", !.status = 401]]
               /\ ops' = ops + 1
          ELSE IF prepared # "ok"
          THEN /\ http' = [http EXCEPT ![p] =
                              [start EXCEPT !.stage = "responded",
                                            !.status = IF prepared = "invalid-body"
                                                       THEN 400 ELSE 500]]
               /\ ops' = ops + 1
          ELSE IF requireAuth
          THEN /\ http' = [http EXCEPT ![p] = [start EXCEPT !.stage = "authorize"]]
               /\ ops' = ops
          ELSE /\ http' = [http EXCEPT ![p] =
                              [start EXCEPT !.stage = "responded", !.handled = 1,
                                            !.status = IF handlerOk THEN 200 ELSE 500]]
               /\ ops' = ops + 1
    /\ UNCHANGED <<now, cache, pc, req, frame, ret, hist, origin, cleared, routeVars>>

\* authorize has returned to handleRequest: the rest of handleRequest
handleRequestResume(p, handlerOk) ==
    /\ http[p].stage = "authorize"
    /\ pc[p] = "done"
    /\ LET after == afterAuthorize(ret[p].value, handlerOk)
       IN http' = [http EXCEPT ![p] =
                     [@ EXCEPT !.stage = "responded", !.allow = after.allow,
                               !.handled = after.handled, !.status = after.status]]
    /\ UNCHANGED <<now, cache, pc, req, frame, ret, hist, origin, cleared, ops, routeVars>>

\* requests to routes: handleRequest calls authorize with the token, the
\* action and the resource of the request, and goes on when it has returned
NextRoutes(callers, headers, items, responses) ==
    \/ \E p \in callers, header \in headers, requireAuth \in BOOLEAN,
          prepared \in Preparations, item \in items, handlerOk \in BOOLEAN :
          handleRequest(p, header, requireAuth, prepared, item, "null", handlerOk)
    \/ \E p \in callers, accepted \in BOOLEAN :
          /\ http[p].stage = "authorize"
          /\ authorize(p, http[p].idToken, http[p].item, http[p].ip, accepted)
    \/ \E p \in callers, resp \in responses : authorizeSettled(p, resp)
    \/ \E p \in callers, handlerOk \in BOOLEAN : handleRequestResume(p, handlerOk)
    \/ \E p \in callers : http[p].stage = "responded" /\ Return(p)
    \/ Tick
    \/ clearCache

\* the calls of callers who send idToken from tokens and context.ip from ips
\* and ask about items, through authorize and the entry points batchOps; the
\* policy endpoint answers from responses
NextOver(callers, batchOps, tokens, ips, items, responses) ==
    \/ \E p \in callers, idToken \in tokens, item \in items, ip \in ips,
          accepted \in BOOLEAN :
          authorize(p, idToken, item, ip, accepted)
    \/ \E p \in callers, resp \in responses : authorizeSettled(p, resp)
    \/ \E p \in callers, op \in batchOps, idToken \in tokens,
          requests \in SeqsUpTo(items, MaxBatch), ip \in ips, accepted \in BOOLEAN :
          authorizeBatch(p, op, idToken, requests, ip, accepted)
    \/ \E p \in callers, j \in 1..MaxBatch, resp \in responses :
          queryBatchItemSettled(p, j, resp)
    \/ \E p \in callers : queryBatchResolved(p)
    \/ \E p \in callers : Return(p)
    \/ Tick
    \/ clearCache

\* the answers of a policy that decides: allow or deny
Decides == {r \in Responses : r.kind = "result" /\ r.allow \in {"true", "false"}}

\* a post by its fields and a post by its id
TwoPosts == {i \in Items : i.resource # PostFieldsSwapped}

\* a member, with or without a token, checking a post; the policy decides
Next ==
    NextOver({1}, {"authorizeBatch"}, {NoToken, "tokA"}, {"undefined"},
             {i \in Items : i.resource = PostFields}, Decides)

Spec == Init /\ [][Next]_vars

\* a member checking two posts, the policy endpoint allowing or unreachable
NextFailingItem ==
    NextOver({1}, {"authorizeBatch"}, {"tokA"}, {"undefined"}, TwoPosts,
             {r \in Responses : r.kind = "network-error"
                                 \/ (r.kind = "result" /\ r.allow = "true")})

SpecFailingItem == Init /\ [][NextFailingItem]_vars

\* every way the policy endpoint may fail, through every entry point, with or
\* without a token
NextFailures ==
    NextOver({1}, BatchOps, {NoToken, "tokA"}, {"undefined"},
             {i \in Items : i.resource = OtherPost},
             {r \in Responses : Failure(r) \/ (r.kind = "result" /\ r.allow = "true")})

SpecFailures == Init /\ [][NextFailures]_vars

\* every answer the policy endpoint may give, through every entry point
NextResponses ==
    NextOver({1}, BatchOps, {"tokA"}, {"undefined"},
             {i \in Items : i.resource = OtherPost},
             {r \in Responses : ~Failure(r)})

SpecResponses == Init /\ [][NextResponses]_vars

\* one user with two tokens, calling from two addresses
NextContext ==
    NextOver({1}, {"authorizeBatch"}, {"tokA", "tokA2"}, Ips,
             {i \in Items : i.resource = PostFields}, Decides)

SpecContext == Init /\ [][NextContext]_vars

\* the same post, its fields written in one order or the other
NextFieldOrder ==
    NextOver({1}, {"authorizeBatch"}, {"tokA"}, {"undefined"},
             {i \in Items : i.action = "read_post"}, Decides)

SpecFieldOrder == Init /\ [][NextFieldOrder]_vars

\* the same calls as they are scheduled: the event loop runs the continuation
\* of a settled Promise.all and hands a result to its caller; fetch is called
\* with no signal and no timeout, so nothing obliges a policy call to settle
SpecScheduled ==
    /\ Init
    /\ [][NextFailingItem]_vars
    /\ WF_vars(\E p \in Procs : queryBatchResolved(p))
    /\ WF_vars(\E p \in Procs : Return(p))

\* requests to a route about one post, with and without a Bearer token; the
\* policy allows, denies or cannot be reached
NextRoute ==
    NextRoutes({1}, Headers, {i \in Items : i.resource = PostFields},
               {r \in Responses : r.kind = "network-error"} \cup Decides)

SpecRoute == Init /\ [][NextRoute]_vars

\* ------------------------------------------------------------------ claims
\* the token of caller p was verified and the service was asked
Served(p) == frame[p].uid # "null"

\* the result for request i (from 1) of the call caller p has returned from
ItemResult(p, i) ==
    IF req[p].op = "authorize" THEN ret[p].value ELSE ret[p].value.results[i]

\* C1: when the policy call of a check fails (network error, non-2xx status,
\* unparsable body) the entry point returns, and never throws; the result of
\* that check has allow=false and its decision carries the error's message.
C1_FailureIsDeny ==
    \A p \in Procs :
        pc[p] = "done" =>
            /\ ret[p].ok
            /\ \A i \in 1..Len(hist[p].resps) :
                  Failure(hist[p].resps[i]) =>
                      /\ ItemResult(p, i).allow = "false"
                      /\ IF req[p].op = "authorize"
                         THEN ItemResult(p, i).decision
                                 = JsString(ErrorMessage(hist[p].resps[i]))
                         ELSE /\ ItemResult(p, i).decision.allow = "false"
                              /\ ItemResult(p, i).decision.reason
                                    = ErrorMessage(hist[p].resps[i])

\* authorize has returned from a call whose policy request got an unparsable body
C1_Witness ==
    \E p \in Procs :
        /\ pc[p] = "done"
        /\ req[p].op = "authorize"
        /\ hist[p].resps = <<[kind |-> "bad-json", allow |-> "undefined"]>>
        /\ ret[p].ok

\* the allow value the policy gave for request i of caller p: in the response
\* to its fetch, or in the cache entry that answered it
SourceAllow(p, i) ==
    IF hist[p].resps[i] # NoResp
    THEN IF hist[p].resps[i].kind = "result" THEN hist[p].resps[i].allow ELSE "none"
    ELSE hist[p].looked[i].entry.allow

\* C2: a check is reported as allowed only if the policy's result had allow
\* equal to the boolean true, for the single check and for every item of a
\* batch; allAllowed and anyAllowed count only such items.
C2_AllowOnlyIfPolicyTrue ==
    \A p \in Procs :
        (pc[p] = "done" /\ Served(p)) =>
            /\ \A i \in 1..Len(req[p].requests) :
                  Truthy(ItemResult(p, i).allow) => SourceAllow(p, i) = "true"
            /\ req[p].op = "authorizeAll" =>
                  (ret[p].value.allAllowed = "true" =>
                      \A i \in 1..Len(req[p].requests) : SourceAllow(p, i) = "true")
            /\ req[p].op = "authorizeAny" =>
                  (ret[p].value.anyAllowed = "true" =>
                      \E i \in 1..Len(req[p].requests) : SourceAllow(p, i) = "true")

\* C3: getCachedDecision returns a decision only from an entry that exists and
\* whose expiry is after now; an entry it finds with expiry <= now is removed
\* and nothing is returned.
C3_NoExpiredEntryReturned ==
    \A p \in Procs :
        \A i \in 1..Len(hist[p].looked) :
            LET l == hist[p].looked[i]
            IN /\ l.ret # Null => (l.had /\ l.expiry > l.at /\ l.ret = l.entry)
               /\ (l.had /\ l.expiry <= l.at) => (l.ret = Null /\ l.gone)

\* a lookup found an entry at the very instant of its expiry and removed it
C3_Witness ==
    \E p \in Procs :
        \E i \in 1..Len(hist[p].looked) :
            LET l == hist[p].looked[i]
            IN l.had /\ l.expiry = l.at /\ l.ret = Null /\ l.gone

\* the single check of caller p, once the service has looked its key up
SingleCheck(p) == req[p].op = "authorize" /\ Served(p)

\* the entries that lookup l found stored less than the TTL before, for the
\* very resource of request i of caller p
FreshSame(p, i, l) ==
    {e \in l.alike : /\ e.by.resource = req[p].requests[i].resource
                     /\ l.at - e.by.storedAt < cacheTtlMs}

\* caller p returned decision d from the cache, with no policy call
AnsweredFromCache(p, d) ==
    /\ pc[p] = "done"
    /\ hist[p].fetched = 0
    /\ ret[p].ok
    /\ ret[p].value.decision = d
    /\ ret[p].value.allow = JsBool(d.allow = "true")

\* C4: a single check made less than the TTL after a check for the same
\* (subject, action, resource) stored its decision is a cache hit: it issues no
\* policy call and returns the stored decision, so the two checks together
\* issue at most one policy call.
C4_SecondCheckWithinTtlHits ==
    \A p \in Procs :
        SingleCheck(p) =>
            /\ hist[p].fetched <= 1
            /\ \A e \in FreshSame(p, 1, hist[p].looked[1]) :
                  AnsweredFromCache(p, e.decision)

\* a second single check, one tick after the first one stored its decision,
\* was answered from the cache
C4_Witness ==
    \E p \in Procs :
        /\ SingleCheck(p)
        /\ \E e \in FreshSame(p, 1, hist[p].looked[1]) :
              /\ e.by.op = "authorize"
              /\ hist[p].looked[1].at > e.by.storedAt
              /\ AnsweredFromCache(p, e.decision)

\* C5: a single check made the TTL or more after the entry of its key was
\* stored does not use that entry: the entry is removed, a policy call is
\* issued, and the decision returned is the one of the new response.
C5_SecondCheckAfterTtlFetches ==
    \A p \in Procs :
        SingleCheck(p) =>
            LET l == hist[p].looked[1]
            IN (l.had /\ l.at - l.storedAt >= cacheTtlMs) =>
                  /\ l.ret = Null
                  /\ l.gone
                  /\ hist[p].fetched = 1
                  /\ pc[p] = "done" =>
                        /\ hist[p].resps[1] # NoResp
                        /\ QueryOutcome(hist[p].resps[1]).ok =>
                              ret[p].value.decision = QueryOutcome(hist[p].resps[1]).value

\* a single check made more than the TTL after a single check stored an allow
\* issued its own policy call and returned the new response's deny
C5_Witness ==
    \E p \in Procs :
        /\ SingleCheck(p)
        /\ pc[p] = "done"
        /\ hist[p].fetched = 1
        /\ hist[p].resps[1] = [kind |-> "result", allow |-> "false"]
        /\ ret[p].value.allow = "false"
        /\ LET l == hist[p].looked[1]
           IN /\ l.had
              /\ l.at - l.storedAt > cacheTtlMs
              /\ l.entry.allow = "true"
              /\ \E e \in l.alike : e.by.op = "authorize" /\ e.by.storedAt = l.storedAt

\* C6: a check finds the entry stored for the same subject and action and for
\* a resource with the same field/value pairs, whatever the order of the
\* fields: while such an entry is less than the TTL old, the lookup hits.
C6_KeyIgnoresFieldOrder ==
    \A p \in Procs :
        Served(p) =>
            \A i \in 1..Len(hist[p].looked) :
                LET l == hist[p].looked[i]
                IN (\E e \in l.alike : l.at - e.by.storedAt < cacheTtlMs) => l.ret # Null

\* C7: a single check finds the entry stored less than the TTL before for the
\* same uid, action and resource by a check with other token claims or
\* another client IP: it returns that entry's decision and issues no policy
\* call; the key of a check does not change with its claims or its IP.
C7_KeyIgnoresClaimsAndContext ==
    \A p \in Procs :
        SingleCheck(p) =>
            /\ \A tok \in Tokens \ {NoToken}, ip \in Ips :
                  getCacheKey(OpaInput(frame[p].uid, DecodedToken(tok),
                                       req[p].requests[1].action,
                                       req[p].requests[1].resource, 0, ip))
                     = hist[p].looked[1].key
            /\ \A e \in FreshSame(p, 1, hist[p].looked[1]) :
                  (e.by.tokenClaims # frame[p].claims \/ e.by.ip # InputOf(p, 1).env.ip)
                     => AnsweredFromCache(p, e.decision)

\* a check with a moderator's claims from one address was answered, a tick
\* later, from the entry a check with a member's claims from no known address
\* had stored
C7_Witness ==
    \E p \in Procs :
        /\ SingleCheck(p)
        /\ \E e \in FreshSame(p, 1, hist[p].looked[1]) :
              /\ e.by.op = "authorize"
              /\ e.by.tokenClaims # frame[p].claims
              /\ e.by.ip # InputOf(p, 1).env.ip
              /\ hist[p].looked[1].at > e.by.storedAt
              /\ AnsweredFromCache(p, e.decision)

\* a batch call of caller p, once queryBatch has gone through the cache
BatchCheck(p) == req[p].op \in BatchOps /\ Served(p)

\* the requests of caller p that had an unexpired entry when the cache was asked
CachedItems(p) ==
    {i \in 1..Len(hist[p].looked) :
        hist[p].looked[i].had /\ hist[p].looked[i].expiry > hist[p].looked[i].at}

\* the requests of caller p whose policy call has been answered
AnsweredItems(p) == {i \in 1..Len(hist[p].resps) : hist[p].resps[i] # NoResp}

\* C8: a batch of N requests of which M have an unexpired cache entry issues
\* exactly N-M policy calls, one per miss, and returns N results; no call at
\* all for an empty batch or a batch of hits.
C8_BatchFetchesOnlyMisses ==
    \A p \in Procs :
        BatchCheck(p) =>
            /\ Len(hist[p].looked) = Len(req[p].requests)
            /\ hist[p].fetched = Len(req[p].requests) - Cardinality(CachedItems(p))
            /\ AnsweredItems(p) \cap CachedItems(p) = {}
            /\ pc[p] = "done" =>
                  /\ ret[p].ok
                  /\ Len(ret[p].value.results) = Len(req[p].requests)
                  /\ Cardinality(AnsweredItems(p)) = hist[p].fetched

\* a batch of two requests, the second of them cached, returned two results
\* after one policy call
C8_Witness ==
    \E p \in Procs :
        /\ BatchCheck(p)
        /\ pc[p] = "done"
        /\ Len(req[p].requests) = 2
        /\ CachedItems(p) = {2}
        /\ hist[p].fetched = 1
        /\ Len(ret[p].value.results) = 2

\* the decision the service makes of a response
DecisionOf(resp) ==
    CASE Failure(resp) -> [allow |-> "false", reason |-> ErrorMessage(resp)]
      [] resp.kind = "no-result" -> [allow |-> "false", reason |-> "no decision returned"]
      [] OTHER -> [allow |-> resp.allow, reason |-> "policy"]

\* the decision for request i of the batch of caller p: of its own policy
\* response, or of the cache entry that answered it
OwnDecision(p, i) ==
    IF hist[p].resps[i] # NoResp THEN DecisionOf(hist[p].resps[i])
    ELSE hist[p].looked[i].entry

\* C9: the list a batch call returns is in input order: its i-th element has
\* index i (from 0) and carries the decision for the i-th request, whichever
\* policy calls settled first and whichever requests were cache hits.
C9_BatchKeepsInputOrder ==
    \A p \in Procs :
        (req[p].op \in BatchOps /\ pc[p] = "done") =>
            /\ Len(ret[p].value.results) = Len(req[p].requests)
            /\ \A i \in 1..Len(req[p].requests) :
                  /\ ret[p].value.results[i].index = i - 1
                  /\ Served(p) => ret[p].value.results[i].decision = OwnDecision(p, i)

\* a batch whose first request was a cache hit with an allow and whose second
\* was a miss the policy endpoint did not answer has returned
C9_Witness ==
    \E p \in Procs :
        /\ BatchCheck(p)
        /\ pc[p] = "done"
        /\ Len(req[p].requests) = 2
        /\ hist[p].resps = <<NoResp, [kind |-> "network-error", allow |-> "undefined"]>>
        /\ hist[p].looked[1].entry.allow = "true"
        /\ ret[p].value.results[1].allow = "true"
        /\ ret[p].value.results[2].allow = "false"

\* C10: when the policy call of one request of a batch fails, the batch still
\* returns one result per request: the failed one is a deny whose reason is
\* the error's message, and every other one carries the allow value and the
\* decision of its own response or cache entry.
C10_BatchIsolatesFailure ==
    \A p \in Procs :
        (BatchCheck(p) /\ pc[p] = "done"
            /\ \E i \in AnsweredItems(p) : Failure(hist[p].resps[i])) =>
            /\ ret[p].ok
            /\ Len(ret[p].value.results) = Len(req[p].requests)
            /\ \A i \in 1..Len(req[p].requests) :
                  /\ ret[p].value.results[i].decision = OwnDecision(p, i)
                  /\ ret[p].value.results[i].allow = OwnDecision(p, i).allow

\* a batch of two whose first policy call failed and whose second was allowed
\* returned a deny with the error's message and an allow
C10_Witness ==
    \E p \in Procs :
        /\ BatchCheck(p)
        /\ pc[p] = "done"
        /\ hist[p].resps = <<[kind |-> "network-error", allow |-> "undefined"],
                             [kind |-> "result", allow |-> "true"]>>
        /\ ret[p].value.results[1].allow = "false"
        /\ ret[p].value.results[1].decision.reason = "fetch failed"
        /\ ret[p].value.results[2].allow = "true"

\* caller p enters an entry point in this step
Enters(p) == pc[p] = "idle" /\ pc'[p] # "idle"

\* the call caller p returns from in this step denied every request with
\* `message` as its decision and a null uid, one result per request, numbered
\* by position
DeniedAll(p, message) ==
    /\ pc'[p] = "done"
    /\ ret'[p].ok
    /\ IF req'[p].op = "authorize"
       THEN /\ ret'[p].value.allow = "false"
            /\ ret'[p].value.decision = JsString(message)
            /\ ret'[p].value.uid = "null"
       ELSE /\ Len(ret'[p].value.results) = Len(req'[p].requests)
            /\ \A i \in 1..Len(req'[p].requests) :
                  /\ ret'[p].value.results[i].allow = "false"
                  /\ ret'[p].value.results[i].decision = JsString(message)
                  /\ ret'[p].value.results[i].uid = "null"
                  /\ ret'[p].value.results[i].index = i - 1

\* the step verified no token, issued no policy call and left the cache as it was
NothingAsked(p) ==
    /\ hist'[p].fetched = 0
    /\ hist'[p].looked = <<>>
    /\ cache' = cache

\* C11: with no token, authorize returns allow=false with decision "no-token"
\* and authorizeBatch one such result per request, numbered by position; the
\* call verifies no token, issues no policy call and leaves the cache unchanged.
C11_NoTokenDeniesAtOnce ==
    [][\A p \in Procs :
          (Enters(p) /\ req'[p].idToken = NoToken) =>
              /\ DeniedAll(p, "no-token")
              /\ NothingAsked(p)
              /\ hist'[p].verify = "none"]_vars

\* a batch of two requests without a token has been denied while the cache
\* held an entry
C11_Witness ==
    \E p \in Procs :
        /\ pc[p] = "done"
        /\ req[p].op = "authorizeBatch"
        /\ req[p].idToken = NoToken
        /\ Len(req[p].requests) = 2
        /\ ret[p].value.results[2].index = 1
        /\ cache # EmptyMap

\* C12: when verifyIdToken rejects the supplied token, authorize returns
\* allow=false with the message of verifyToken's error as its decision and a
\* null uid, and authorizeBatch such a deny for each of its N requests; no
\* policy call is issued and the cache is left as it was.
C12_BadTokenDeniesAll ==
    [][\A p \in Procs :
          (Enters(p) /\ hist'[p].verify = "rejected") =>
              /\ DeniedAll(p, "Invalid ID token")
              /\ NothingAsked(p)]_vars

\* a batch of two requests with a token verifyIdToken rejected has been denied
\* while the cache held an entry
C12_Witness ==
    \E p \in Procs :
        /\ pc[p] = "done"
        /\ req[p].op = "authorizeBatch"
        /\ hist[p].verify = "rejected"
        /\ Len(req[p].requests) = 2
        /\ ret[p].value.results[2].decision = JsString("Invalid ID token")
        /\ cache # EmptyMap

\* C13: a policy call that never answers cannot stall a call forever: every
\* authorize and authorizeBatch call that waits for the policy endpoint
\* eventually returns.
C13_EveryCallReturns ==
    \A p \in Procs : (pc[p] \in {"fetch", "gather"}) ~> (pc[p] = "done")

\* the results of the call caller p has returned from that have allow = true
AllowedResults(p) ==
    {i \in 1..Len(ret[p].value.results) : ret[p].value.results[i].allow = "true"}

\* the results that have allow = false
DeniedResults(p) ==
    {i \in 1..Len(ret[p].value.results) : ret[p].value.results[i].allow = "false"}

\* C14: authorizeAll returns allAllowed=true iff every decision of the batch
\* has allow=true, and allAllowed=false when any item has allow=false, an
\* item denied because its policy call failed included.
C14_AllAllowedIffEveryAllow ==
    \A p \in Procs :
        (pc[p] = "done" /\ req[p].op = "authorizeAll") =>
            /\ ret[p].value.allAllowed = "true"
                  <=> AllowedResults(p) = 1..Len(ret[p].value.results)
            /\ DeniedResults(p) # {} => ret[p].value.allAllowed = "false"

\* C15: authorizeAny returns anyAllowed=true iff at least one decision of the
\* batch has allow=true; a batch whose every item is denied, a batch whose
\* every policy call failed included, returns anyAllowed=false.
C15_AnyAllowedIffSomeAllow ==
    \A p \in Procs :
        (pc[p] = "done" /\ req[p].op = "authorizeAny") =>
            /\ ret[p].value.anyAllowed = "true" <=> AllowedResults(p) # {}
            /\ DeniedResults(p) = 1..Len(ret[p].value.results)
                  => ret[p].value.anyAllowed = "false"

\* the reasons of the denies made of failed policy calls
ErrorReasons == {ErrorMessage(r) : r \in {x \in Responses : Failure(x)}}

\* the policy call of request i of caller p settles in this step
Settles(p, i) ==
    /\ i \in 1..Len(hist[p].resps)
    /\ Len(hist'[p].resps) = Len(hist[p].resps)
    /\ hist[p].resps[i] = NoResp
    /\ hist'[p].resps[i] # NoResp

\* C16: an entry is created only after a successful policy query: the step in
\* which a policy call fails (network error, non-success status) leaves the
\* cache as it was, no entry holds the deny made of an error, and no lookup
\* returns one, so a later check asks the policy again.
C16_FailureIsNotCached ==
    /\ [](/\ \A k \in DOMAIN cache : cache[k].decision.reason \notin ErrorReasons
          /\ \A p \in Procs : \A i \in 1..Len(hist[p].looked) :
                hist[p].looked[i].ret # Null =>
                    hist[p].looked[i].ret.reason \notin ErrorReasons)
    /\ [][\A p \in Procs : \A i \in 1..MaxBatch :
             (Settles(p, i) /\ Failure(hist'[p].resps[i])) => cache' = cache]_vars

\* a single check whose policy call was answered with status 500 has returned
\* its deny, and the cache has no entry for its key
C16_Witness ==
    \E p \in Procs :
        /\ pc[p] = "done"
        /\ req[p].op = "authorize"
        /\ hist[p].resps = <<[kind |-> "http-500", allow |-> "undefined"]>>
        /\ ret[p].value.allow = "false"
        /\ hist[p].looked[1].key \notin DOMAIN cache

\* the entry a successful policy call of request i of caller p leaves under
\* the key of that request, every other entry staying as it was
StoresOwn(p, i) ==
    LET key == getCacheKey(InputOf(p, i))
    IN /\ key \in DOMAIN cache'
       /\ cache'[key] = [decision |-> QueryOutcome(hist'[p].resps[i]).value,
                         expiry |-> now + cacheTtlMs]
       /\ \A k \in DOMAIN cache \ {key} : k \in DOMAIN cache' /\ cache'[k] = cache[k]
       /\ DOMAIN cache' = DOMAIN cache \cup {key}

\* C17 as stated: at the step in which a batch check returns, the cache holds,
\* under the key of every item whose policy call succeeded, the decision of
\* that item.
C17_ReturnedBatchIsCached ==
    [][\A p \in Procs :
          (pc[p] = "gather" /\ pc'[p] = "done") =>
              \A i \in AnsweredItems(p) :
                  QueryOutcome(hist[p].resps[i]).ok =>
                      /\ getCacheKey(InputOf(p, i)) \in DOMAIN cache'
                      /\ cache'[getCacheKey(InputOf(p, i))].decision
                            = QueryOutcome(hist[p].resps[i]).value]_vars

\* C17, amended: before a batch check returns, every item whose policy call
\* succeeded has had its decision stored in the cache under its own key; a
\* single check or batch item that finds such an entry for its (subject,
\* action, resource) less than the TTL after it was stored is answered with
\* that decision and issues no policy call.
C17_BatchStoresFreshDecisions ==
    /\ [][\A p \in Procs : \A i \in 1..MaxBatch :
             (/\ req[p].op \in BatchOps
              /\ Settles(p, i)
              /\ QueryOutcome(hist'[p].resps[i]).ok) => StoresOwn(p, i)]_vars
    /\ [](\A p \in Procs :
            Served(p) =>
                \A i \in 1..Len(hist[p].looked) :
                    \A e \in FreshSame(p, i, hist[p].looked[i]) :
                        e.by.op \in BatchOps =>
                            /\ hist[p].looked[i].ret = e.decision
                            /\ hist[p].resps[i] = NoResp
                            /\ pc[p] = "done" => ItemResult(p, i).decision = e.decision)

\* a single check was answered, a tick later and with no policy call, from
\* the entry a batch of two different requests had stored
C17_Witness ==
    \E p \in Procs :
        /\ SingleCheck(p)
        /\ Cardinality(DOMAIN cache) = 2
        /\ \E e \in FreshSame(p, 1, hist[p].looked[1]) :
              /\ e.by.op = "authorizeBatch"
              /\ hist[p].looked[1].at > e.by.storedAt
              /\ AnsweredFromCache(p, e.decision)

\* clearCache() is called in this step
Clears == cleared' /\ UNCHANGED <<now, pc, hist>>

\* C18: clearCache removes all entries: right after it the cache is empty, and
\* the next check that asks the service, for a key that was cached and
\* unexpired before the clear or for any other, finds nothing in the cache and
\* issues a policy call for each of its requests.
C18_ClearCacheEmptiesAll ==
    [][/\ Clears => cache' = EmptyMap
       /\ \A p \in Procs :
             (cleared /\ Enters(p) /\ hist'[p].verify = "accepted") =>
                 /\ hist'[p].fetched = Len(req'[p].requests)
                 /\ \A i \in 1..Len(hist'[p].looked) :
                       hist'[p].looked[i].ret = Null]_vars

\* a policy call of some caller for key k is answered with a decision in this step
StoreFor(k) ==
    \E p \in Procs : \E i \in 1..MaxBatch :
        /\ Settles(p, i)
        /\ QueryOutcome(hist'[p].resps[i]).ok
        /\ getCacheKey(InputOf(p, i)) = k

\* C19: storing a decision puts it under its key with expiry = the store
\* instant + the TTL (30000 ms, two ticks), whatever entry the key had; only a
\* store changes the decision or the expiry of an entry: a cache hit never
\* extends it.
C19_StoreSetsExpiryAndOverwrites ==
    [][/\ \A p \in Procs : \A i \in 1..MaxBatch :
             (Settles(p, i) /\ QueryOutcome(hist'[p].resps[i]).ok) =>
                 /\ getCacheKey(InputOf(p, i)) \in DOMAIN cache'
                 /\ cache'[getCacheKey(InputOf(p, i))]
                       = [decision |-> QueryOutcome(hist'[p].resps[i]).value,
                          expiry |-> now + 2]
       /\ \A k \in DOMAIN cache \cap DOMAIN cache' :
             cache'[k] # cache[k] => StoreFor(k)
       /\ \A k \in DOMAIN cache' \ DOMAIN cache : StoreFor(k)]_vars

\* the two policy calls of a batch that asked twice for the same key were
\* answered allow and deny: the entry of the key is the one stored last, with
\* the expiry of that store, later than the instant the batch began
C19_Witness ==
    \E p \in Procs :
        /\ BatchCheck(p)
        /\ Len(req[p].requests) = 2
        /\ req[p].requests[1] = req[p].requests[2]
        /\ {hist[p].resps[1].allow, hist[p].resps[2].allow} = {"true", "false"}
        /\ LET key == getCacheKey(InputOf(p, 1))
           IN /\ key \in DOMAIN cache
              /\ origin[key].storedAt > frame[p].at
              /\ cache[key].expiry = origin[key].storedAt + cacheTtlMs
              /\ cache[key].decision.allow \in {"true", "false"}

\* C20: a route wrapped by withAuth (requireAuth left at its default) runs its
\* handler only when a Bearer token was present and authorize has returned
\* allow=true for the action and resource of the request; with no token the
\* response is 401 and no policy call was made; with allow=false the response
\* is 403 and the handler has not run.
C20_HandlerOnlyAfterAllow ==
    /\ [][\A p \in Procs :
             (http'[p].requireAuth /\ http'[p].handled > 0 /\ http[p].handled = 0) =>
                 /\ http'[p].idToken # NoToken
                 /\ pc[p] = "done"
                 /\ req[p].op = "authorize"
                 /\ req[p].idToken = http'[p].idToken
                 /\ req[p].requests = <<http'[p].item>>
                 /\ ret[p].ok
                 /\ ret[p].value.allow = "true"]_vars
    /\ [](\A p \in Procs :
            (http[p].requireAuth /\ http[p].stage = "responded") =>
                /\ http[p].idToken = NoToken =>
                      /\ http[p].status = 401
                      /\ http[p].handled = 0
                      /\ pc[p] = "idle"
                      /\ hist[p] = NoHist
                /\ http[p].allow = "false" =>
                      /\ http[p].status = 403
                      /\ http[p].handled = 0
                /\ http[p].handled > 0 => http[p].allow = "true")

\* a request with a Bearer token that the policy allowed had its handler run
\* and was answered 200
C20_Witness ==
    \E p \in Procs :
        /\ http[p].requireAuth
        /\ http[p].stage = "responded"
        /\ http[p].idToken = "tokA"
        /\ http[p].allow = "true"
        /\ http[p].handled = 1
        /\ http[p].status = 200
        /\ pc[p] = "done"
        /\ hist[p].resps = <<[kind |-> "result", allow |-> "true"]>>

\* ----------------------------------------------------------- route handlers
\* The handlers of the community, vote and report routes, as withAuth runs
\* them for an authorized request.  Every await of a handler is one step: its
\* reads return the documents of that instant, its batch is written at once.

\* route requests begun in a run of the model
MaxRequests == 5

\* a request to the handler of route `op` by user uid, about user userId
Request(op, uid, userId, role) ==
    [NoRun EXCEPT !.op = op, !.uid = uid, !.userId = userId, !.role = role]

ModeratorRoles == {"moderator", "admin"}

\* the community routes: create, join and leave (the user's own membership),
\* ban, unban and remove-moderator (a target user), add-moderator (a target
\* and the role of addModeratorSchema)
CommunityRequests ==
    {Request("create", "u1", "u1", "null")}
        \cup {Request(op, u, u, "null") : op \in {"join", "leave"}, u \in Users}
        \cup {Request(op, u, t, "null") :
                 op \in {"ban", "unban", "removeModerator"}, u \in Users, t \in Users}
        \cup {Request("addModerator", u, t, role) :
                 u \in Users, t \in Users, role \in ModeratorRoles}

\* the first checks of a community handler on the community document it read:
\* the status it answers, 0 when it goes on (the slug query of create finds
\* the community of the model or nothing)
communityCheck(r, communityDoc) ==
    IF r.op = "create" THEN (IF communityDoc.exists THEN 409 ELSE 0)
    ELSE IF ~communityDoc.exists THEN 404
    ELSE IF r.op = "leave" /\ communityDoc.ownerId = r.uid THEN 403
    ELSE IF r.op = "ban" /\ communityDoc.ownerId = r.userId THEN 403
    ELSE IF r.op = "ban" /\ r.userId = r.uid THEN 400
    ELSE IF r.op = "removeModerator" /\ communityDoc.ownerId = r.userId THEN 403
    ELSE 0

\* add-moderator with any requester allowed to name any role
requesterCheckAnyRole(r, requesterMembership) ==
    IF ~requesterMembership.exists THEN 403
    ELSE IF r.op \in {"ban", "unban"}
    THEN (IF requesterMembership.role \in {"owner", "admin", "moderator"} THEN 0 ELSE 403)
    ELSE IF requesterMembership.role \notin {"owner", "admin"} THEN 403
    ELSE 0

\* the permission checks of ban, unban, add-moderator and remove-moderator on
\* the requester's membership
requesterCheck(r, requesterMembership) ==
    IF ~requesterMembership.exists THEN 403
    ELSE IF r.op \in {"ban", "unban"}
    THEN (IF requesterMembership.role \in {"owner", "admin", "moderator"} THEN 0 ELSE 403)
    ELSE IF requesterMembership.role \notin {"owner", "admin"} THEN 403
    ELSE IF r.op = "addModerator" /\ r.role = "admin" /\ requesterMembership.role # "owner"
    THEN 403
    ELSE 0

\* the checks on the membership the request is about (the requester's own for
\* join and leave)
targetCheck(r, targetMembership) ==
    IF r.op = "join"
    THEN (IF ~targetMembership.exists THEN 0
          ELSE IF targetMembership.isBanned THEN 403 ELSE 409)
    ELSE IF r.op = "leave" THEN (IF targetMembership.exists THEN 0 ELSE 400)
    ELSE IF r.op = "ban"
    THEN (IF /\ targetMembership.exists
             /\ roleHierarchy[targetMembership.role]
                   >= roleHierarchy[r.requesterMembership.role]
          THEN 403 ELSE 0)
    ELSE IF r.op = "unban"
    THEN (IF targetMembership.exists /\ targetMembership.isBanned THEN 0 ELSE 400)
    ELSE IF r.op = "addModerator"
    THEN (IF ~targetMembership.exists THEN 400
          ELSE IF targetMembership.isBanned THEN 400
          ELSE IF targetMembership.role \in {"owner", "admin", "moderator"} THEN 409
          ELSE 0)
    ELSE \* removeModerator
         (IF ~targetMembership.exists THEN 404
          ELSE IF targetMembership.role = "admin" /\ r.requesterMembership.role # "owner"
          THEN 403
          ELSE IF targetMembership.role \notin ModeratorRoles THEN 400
          ELSE 0)

\* the await that follows the read of the community document
AfterCommunity(r) ==
    IF r.op = "create" THEN "commit"
    ELSE IF r.op \in {"join", "leave"} THEN "target"
    ELSE "requester"

\* a write that went through, and one Firestore refused: it writes nothing
Written(d) == [ok |-> TRUE, db |-> d]
NotWritten(d) == [ok |-> FALSE, db |-> d]

\* batch.commit() of a community handler (the single delete of unban) on the
\* documents d: an update of a membership that is gone fails the whole batch
communityCommit(r, d) ==
    LET t == r.targetMembership
        m == d.memberships[r.userId]
    IN
    IF r.op = "create"
    THEN Written([d EXCEPT
             !.community = [DEFAULT_COMMUNITY EXCEPT !.ownerId = r.uid,
                                                     !.moderatorIds = {r.uid}],
             !.memberships[r.uid] = Membership("owner", FALSE)])
    ELSE IF r.op = "join"
    THEN Written([d EXCEPT
             !.memberships[r.uid] = DEFAULT_MEMBERSHIP,
             !.community.memberCount = @ + 1])
    ELSE IF r.op = "leave"
    THEN Written([d EXCEPT
             !.memberships[r.uid] = NoDoc,
             !.community.memberCount = @ - 1,
             !.community.moderatorIds =
                 IF t.role \in ModeratorRoles
                 THEN r.communityData.moderatorIds \ {r.uid}
                 ELSE @])
    ELSE IF r.op = "ban"
    THEN (IF ~t.exists
          THEN Written([d EXCEPT !.memberships[r.userId] = Membership("member", TRUE)])
          ELSE IF ~m.exists THEN NotWritten(d)
          ELSE Written([d EXCEPT
                   !.memberships[r.userId] = [m EXCEPT !.isBanned = TRUE,
                                                       !.role = "member"],
                   !.community.moderatorIds =
                       IF t.role \in ModeratorRoles THEN @ \ {r.userId} ELSE @,
                   !.community.memberCount =
                       IF ~t.isBanned THEN @ - 1 ELSE @]))
    ELSE IF r.op = "unban"
    THEN Written([d EXCEPT !.memberships[r.userId] = NoDoc])
    ELSE IF ~m.exists THEN NotWritten(d)
    ELSE IF r.op = "addModerator"
    THEN Written([d EXCEPT
             !.memberships[r.userId] = [m EXCEPT !.role = r.role],
             !.community.moderatorIds = @ \cup {r.userId}])
    ELSE \* removeModerator
         Written([d EXCEPT
             !.memberships[r.userId] = [m EXCEPT !.role = "member"],
             !.community.moderatorIds = @ \ {r.userId}])

\* the users banned from the community and not unbanned, after the write `w`
\* of request r
BannedAfter(r, w, banned) ==
    IF ~w.ok THEN banned
    ELSE IF r.op = "ban" THEN banned \cup {r.userId}
    ELSE IF r.op = "unban" THEN banned \ {r.userId}
    ELSE banned

\* where the handler of p is once a check gave `status`
Checked(r, status, next) ==
    IF status # 0 THEN [r EXCEPT !.at = "done", !.status = status]
    ELSE [r EXCEPT !.at = next]

\* a request reaches the handler of its route.  The model holds one community:
\* no second creation begins while one is in progress.
request(p, r) ==
    /\ run[p].at \in {"idle", "done"}
    /\ served.requests < MaxRequests
    /\ r.op = "create" =>
          \A q \in Procs : run[q].op = "create" => run[q].at \in {"idle", "done"}
    /\ run' = [run EXCEPT ![p] =
                 [r EXCEPT !.at = IF r.op = "vote" THEN "post"
                                  ELSE IF r.op = "unvote" THEN "vote"
                                  ELSE IF r.op = "resolve" THEN "report"
                                  ELSE "community"]]
    /\ served' = [served EXCEPT !.requests = @ + 1]
    /\ UNCHANGED <<db, opaVars>>

\* await db.collection('communities').doc(communityId).get()
getCommunity(p) ==
    /\ run[p].at = "community"
    /\ LET r == [run[p] EXCEPT !.communityData = db.community]
       IN run' = [run EXCEPT ![p] =
                     Checked(r, communityCheck(r, db.community), AfterCommunity(r))]
    /\ UNCHANGED <<db, served, opaVars>>

\* await the requester's membership
getRequester(p) ==
    /\ run[p].at = "requester"
    /\ LET requesterMembership == db.memberships[run[p].uid]
           r == [run[p] EXCEPT !.requesterMembership = requesterMembership]
       IN run' = [run EXCEPT ![p] =
                     Checked(r, requesterCheck(r, requesterMembership), "target")]
    /\ UNCHANGED <<db, served, opaVars>>

\* await the membership the request is about
getTarget(p) ==
    /\ run[p].at = "target"
    /\ LET targetMembership == db.memberships[run[p].userId]
           r == [run[p] EXCEPT !.targetMembership = targetMembership]
       IN run' = [run EXCEPT ![p] =
                     Checked(r, targetCheck(r, targetMembership), "commit")]
    /\ UNCHANGED <<db, served, opaVars>>

\* await batch.commit() and the response: 201 for a created community, 200
\* for the others, 500 (handleError) when the commit threw
commitCommunity(p) ==
    /\ run[p].at = "commit"
    /\ run[p].op \in {"create", "join", "leave", "ban", "unban",
                      "addModerator", "removeModerator"}
    /\ LET w == communityCommit(run[p], db)
       IN /\ db' = w.db
          /\ run' = [run EXCEPT ![p] =
                        [@ EXCEPT !.at = "done",
                                  !.status = IF ~w.ok THEN 500
                                             ELSE IF run[p].op = "create" THEN 201
                                             ELSE 200]]
          /\ served' = [served EXCEPT !.banned = BannedAfter(run[p], w, @)]
    /\ UNCHANGED opaVars

\* the community routes served to `callers` for the requests of `requests`
NextCommunity(callers, requests) ==
    \/ \E p \in callers : \E r \in requests : request(p, r)
    \/ \E p \in callers : getCommunity(p)
    \/ \E p \in callers : getRequester(p)
    \/ \E p \in callers : getTarget(p)
    \/ \E p \in callers : commitCommunity(p)

\* the community routes with requests that run one at a time
NextOneAtATime == NextCommunity({1}, CommunityRequests)
SpecOneAtATime == Init /\ [][NextOneAtATime]_vars

\* ----------------------------------------------------------- vote routes
\* POST (value 1 or -1, voteSchema) and DELETE /api/posts/[id]/vote
VoteRequests ==
    {[Request("vote", u, "null", "null") EXCEPT !.postId = t, !.value = v] :
         u \in Users, t \in PostIds, v \in {1, -1}}
        \cup {[Request("unvote", u, "null", "null") EXCEPT !.postId = t] :
                 u \in Users, t \in PostIds}

\* db.collection('posts').doc(postId).get()
PostDoc(d, postId) == IF postId = "p1" THEN d.post ELSE NoDoc

\* the checks on the post document: 404 without it, 400 for a vote on one's
\* own post
postCheck(r, postDoc) ==
    IF ~postDoc.exists THEN 404
    ELSE IF r.op = "vote" /\ postDoc.authorId = r.uid THEN 400
    ELSE 0

\* the checks on the vote document: 409 for the same vote again, 400 for an
\* unvote without a vote
existingVoteCheck(r, existingVote) ==
    IF r.op = "vote"
    THEN (IF existingVote.exists /\ existingVote.value = r.value THEN 409 ELSE 0)
    ELSE (IF existingVote.exists THEN 0 ELSE 400)

\* the read that follows: POST reads the post and then the vote, DELETE the
\* vote and then the post
AfterPost(r) == IF r.op = "vote" THEN "vote" ELSE "commit"
AfterVote(r) == IF r.op = "vote" THEN "commit" ELSE "post"

\* increment(up), increment(down), increment(score) on the metrics of the
\* post and increment(score) on the karma of its author
Counted(d, up, down, score) ==
    [d EXCEPT !.post.metrics = [upvotes |-> @.upvotes + up,
                                downvotes |-> @.downvotes + down,
                                score |-> @.score + score],
              !.karma = @ + score]

\* a change of direction that moves the score by one
voteCommitSwingOne(r, d) ==
    LET id == getVoteId(r.uid, r.postId, "post")
        e == r.existingVote
    IN
    IF r.op = "unvote"
    THEN Written(Counted([d EXCEPT !.votes[id] = NoDoc],
                         IF e.value = 1 THEN -1 ELSE 0,
                         IF e.value = 1 THEN 0 ELSE -1,
                         -e.value))
    ELSE IF ~e.exists
    THEN Written(Counted([d EXCEPT !.votes[id] = Vote(r.value)],
                         IF r.value = 1 THEN 1 ELSE 0,
                         IF r.value = 1 THEN 0 ELSE 1,
                         r.value))
    ELSE IF ~d.votes[id].exists THEN NotWritten(d)
    ELSE Written(Counted([d EXCEPT !.votes[id] = [@ EXCEPT !.value = r.value]],
                         r.value, -r.value, r.value))

\* batch.commit() of the vote handlers: a new vote counts 1, a change of
\* direction swings by 2, an unvote reverses the value it read; the update of
\* a vote document that is gone fails the batch
voteCommit(r, d) ==
    LET id == getVoteId(r.uid, r.postId, "post")
        e == r.existingVote
    IN
    IF r.op = "unvote"
    THEN Written(Counted([d EXCEPT !.votes[id] = NoDoc],
                         IF e.value = 1 THEN -1 ELSE 0,
                         IF e.value = 1 THEN 0 ELSE -1,
                         -e.value))
    ELSE IF ~e.exists
    THEN Written(Counted([d EXCEPT !.votes[id] = Vote(r.value)],
                         IF r.value = 1 THEN 1 ELSE 0,
                         IF r.value = 1 THEN 0 ELSE 1,
                         r.value))
    ELSE IF ~d.votes[id].exists THEN NotWritten(d)
    ELSE Written(Counted([d EXCEPT !.votes[id] = [@ EXCEPT !.value = r.value]],
                         r.value, -r.value, 2 * r.value))

\* await db.collection('posts').doc(postId).get()
getPost(p) ==
    /\ run[p].at = "post"
    /\ LET postDoc == PostDoc(db, run[p].postId)
           r == [run[p] EXCEPT !.postData = postDoc]
       IN run' = [run EXCEPT ![p] = Checked(r, postCheck(r, postDoc), AfterPost(r))]
    /\ UNCHANGED <<db, served, opaVars>>

\* await voteRef.get()
getVote(p) ==
    /\ run[p].at = "vote"
    /\ LET existingVote == db.votes[getVoteId(run[p].uid, run[p].postId, "post")]
           r == [run[p] EXCEPT !.existingVote = existingVote]
       IN run' = [run EXCEPT ![p] =
                     Checked(r, existingVoteCheck(r, existingVote), AfterVote(r))]
    /\ UNCHANGED <<db, served, opaVars>>

\* await batch.commit() and the response
commitVote(p) ==
    /\ run[p].at = "commit"
    /\ run[p].op \in {"vote", "unvote"}
    /\ LET w == voteCommit(run[p], db)
       IN /\ db' = w.db
          /\ run' = [run EXCEPT ![p] =
                        [@ EXCEPT !.at = "done",
                                  !.status = IF w.ok THEN 200 ELSE 500]]
    /\ UNCHANGED <<served, opaVars>>

\* the vote routes served to `callers` for the requests of `requests`
NextVote(callers, requests) ==
    \/ \E p \in callers : \E r \in requests : request(p, r)
    \/ \E p \in callers : getPost(p)
    \/ \E p \in callers : getVote(p)
    \/ \E p \in callers : commitVote(p)

\* vote and unvote requests that run one at a time
NextVotes == NextVote({1}, VoteRequests)
SpecVotes == Init /\ [][NextVotes]_vars

\* u2 votes on the post, twice at the same time
NextVoteOverlap ==
    NextVote({1, 2}, {r \in VoteRequests : r.uid = "u2" /\ r.postId = "p1"})
SpecVoteOverlap == Init /\ [][NextVoteOverlap]_vars

\* --------------------------------------------------------- report route
\* PATCH /api/admin/reports/[id] by the admins u1 and u2, with the resolution
\* and the optional note of resolveReportSchema
ResolveRequests ==
    {[Request("resolve", u, "null", "null") EXCEPT !.resolution = res,
                                                  !.resolutionNote = note] :
         u \in {"u1", "u2"}, res \in {"resolved", "dismissed"},
         note \in {"null", "note"}}

\* the statuses of a report that has been resolved
Resolved == {"resolved", "dismissed"}

\* the checks on the report document: 404 without it, 409 once resolved
reportCheck(data) ==
    IF ~data.exists THEN 404
    ELSE IF data.status \in Resolved THEN 409
    ELSE 0

\* await docRef.get()
getReport(p) ==
    /\ run[p].at = "report"
    /\ LET r == [run[p] EXCEPT !.data = db.report]
       IN run' = [run EXCEPT ![p] = Checked(r, reportCheck(db.report), "update")]
    /\ UNCHANGED <<db, served, opaVars>>

\* await docRef.update({status, resolutionNote, resolvedBy, ...})
updateReport(p) ==
    /\ run[p].at = "update"
    /\ db' = [db EXCEPT !.report = [@ EXCEPT !.status = run[p].resolution,
                                             !.resolutionNote = run[p].resolutionNote,
                                             !.resolvedBy = run[p].uid]]
    /\ run' = [run EXCEPT ![p].at = "updated"]
    /\ UNCHANGED <<served, opaVars>>

\* await docRef.get() of the updated document, and the response
getUpdated(p) ==
    /\ run[p].at = "updated"
    /\ run' = [run EXCEPT ![p] = [@ EXCEPT !.data = db.report, !.at = "done",
                                           !.status = 200]]
    /\ UNCHANGED <<db, served, opaVars>>

\* the report route served to `callers`
NextReport(callers) ==
    \/ \E p \in callers : \E r \in ResolveRequests : request(p, r)
    \/ \E p \in callers : getReport(p)
    \/ \E p \in callers : updateReport(p)
    \/ \E p \in callers : getUpdated(p)

\* PATCH requests of two admins that may overlap
NextReports == NextReport({1, 2})
SpecReports == Init /\ [][NextReports]_vars

\* C21: authorizeAll reports allAllowed=true only for a caller whose token was
\* supplied and verified and whose every requested item the policy allowed:
\* with a null token or a token that fails verification, allAllowed is false
\* for every request list, the empty list included.
C21_AllAllowedNeedsVerifiedToken ==
    \A p \in Procs :
        (pc[p] = "done" /\ req[p].op = "authorizeAll") =>
            /\ (req[p].idToken = NoToken \/ hist[p].verify = "rejected")
                  => ret[p].value.allAllowed = "false"
            /\ ret[p].value.allAllowed = "true" =>
                  /\ hist[p].verify = "accepted"
                  /\ AllowedResults(p) = 1..Len(req[p].requests)

\* the handler of caller p answers in this step
Responds(p) == run[p].at # "done" /\ run'[p].at = "done"

\* C22: once a user is banned from the community, every join request by that
\* user is rejected until a moderator unbans them, whatever the banned user
\* requests in between, leave included: the banned membership that blocks
\* rejoining is removed only by the unban operation.
C22_BannedUntilUnbanned ==
    [][/\ \A p \in Procs :
             (Responds(p) /\ run[p].op = "join" /\ run[p].uid \in served.banned)
                 => run'[p].status \notin {200, 201}
       /\ \A u \in Users :
             (/\ db.memberships[u].exists
              /\ db.memberships[u].isBanned
              /\ ~db'.memberships[u].exists)
                 => \E p \in Procs :
                       /\ Responds(p)
                       /\ run[p].op = "unban"
                       /\ run[p].userId = u]_vars

\* no handler is between its first read and its response
Quiet == \A p \in Procs : run[p].at \in {"idle", "done"}

\* the users with a membership document that has isBanned = false
ActiveMembers ==
    {u \in Users : db.memberships[u].exists /\ ~db.memberships[u].isBanned}

\* C23: after any sequence of create, join, leave, ban and unban requests that
\* run one at a time, the community's memberCount equals the number of its
\* membership documents with isBanned=false, the owner's included.
C23_MemberCountCountsActive ==
    (Quiet /\ db.community.exists) =>
        db.community.memberCount = Cardinality(ActiveMembers)

\* the users whose vote document for the post p1 has value v
VotesWith(v) ==
    {u \in Users :
        LET vote == db.votes[getVoteId(u, "p1", "post")]
        IN vote.exists /\ vote.value = v}

\* the counters of the post and the karma of its author are the counts of the
\* vote documents
Tally ==
    /\ db.post.metrics.upvotes = Cardinality(VotesWith(1))
    /\ db.post.metrics.downvotes = Cardinality(VotesWith(-1))
    /\ db.post.metrics.score = db.post.metrics.upvotes - db.post.metrics.downvotes
    /\ db.karma = db.post.metrics.score

\* C24: after any sequence of vote and unvote requests that run one at a
\* time there is one vote document per (user, post) at most, metrics.upvotes
\* is the number of vote documents with value 1, metrics.downvotes the number
\* with value -1, metrics.score = upvotes - downvotes and the author's karma
\* has changed by exactly the score; a request rejected with 400, 404 or 409
\* changes none of these.
C24_CountersMatchVotes ==
    /\ [](/\ Quiet => Tally
          /\ \A u1 \in Users, u2 \in Users, t1 \in PostIds, t2 \in PostIds :
                getVoteId(u1, t1, "post") = getVoteId(u2, t2, "post")
                    => (u1 = u2 /\ t1 = t2))
    /\ [][\A p \in Procs :
             (Responds(p) /\ run'[p].status \in {400, 404, 409}) => db' = db]_vars

\* u3 has turned an upvote into a downvote while another upvote stands: one
\* upvote, one downvote, score and karma 0
C24_Witness ==
    \E p \in Procs :
        /\ run[p].op = "vote"
        /\ run[p].at = "done"
        /\ run[p].status = 200
        /\ run[p].existingVote = Vote(1)
        /\ run[p].value = -1
        /\ VotesWith(1) # {}
        /\ db.post.metrics = [upvotes |-> 1, downvotes |-> 1, score |-> 0]
        /\ db.karma = 0

\* C25: when two vote requests by the same user for the same post overlap
\* (both read the vote document before either commits its batch), the post's
\* upvotes, downvotes and score and the author's karma still equal the counts
\* derived from the vote documents: a duplicated request never counts one
\* vote twice.
C25_OverlappingVotesCountOnce == Quiet => Tally

\* the role of user u in the documents d, "none" without a membership
RoleOf(d, u) == IF d.memberships[u].exists THEN d.memberships[u].role ELSE "none"

\* the add-moderator request of caller p about user u is answered 200 in this step
Promotes(p, u) ==
    /\ Responds(p)
    /\ run[p].op = "addModerator"
    /\ run[p].userId = u
    /\ run'[p].status = 200

\* C26: a membership's role is set to admin only in a request whose requester
\* holds the owner role in the community, and a membership is promoted to
\* moderator only by a requester whose role is owner or admin; a requester
\* with role moderator or member never changes another member's role upward.
C26_PromotionNeedsRank ==
    [][\A u \in Users :
          LET before == RoleOf(db, u)
              after == RoleOf(db', u)
          IN /\ (after = "admin" /\ before # "admin") =>
                    \E p \in Procs :
                        Promotes(p, u) /\ RoleOf(db, run[p].uid) = "owner"
             /\ (after = "moderator" /\ before # "moderator") =>
                    \E p \in Procs :
                        Promotes(p, u) /\ RoleOf(db, run[p].uid) \in {"owner", "admin"}
             /\ (/\ before # "none"
                 /\ after # "none"
                 /\ roleHierarchy[after] > roleHierarchy[before]) =>
                    \E p \in Procs :
                        /\ Promotes(p, u)
                        /\ run[p].uid # u
                        /\ RoleOf(db, run[p].uid) \notin {"moderator", "member", "none"}]_vars

\* the owner has made u2 an admin, and the admin has made a member a
\* moderator
C26_Witness ==
    \E p \in Procs :
        /\ run[p].op = "addModerator"
        /\ run[p].at = "done"
        /\ run[p].status = 200
        /\ run[p].requesterMembership.role = "admin"
        /\ RoleOf(db, run[p].uid) = "admin"
        /\ RoleOf(db, run[p].userId) = "moderator"
        /\ db.community.moderatorIds = {db.community.ownerId, run[p].uid, run[p].userId}

\* the community u1 has created, u2 and u3 have joined and u1 has made u2 a
\* moderator of
ModeratedDb ==
    [NoCommunityDb EXCEPT
        !.community = [DEFAULT_COMMUNITY EXCEPT !.ownerId = "u1", !.memberCount = 3,
                                                !.moderatorIds = {"u1", "u2"}],
        !.memberships = [u \in Users |->
                            IF u = "u1" THEN Membership("owner", FALSE)
                            ELSE IF u = "u2" THEN Membership("moderator", FALSE)
                            ELSE DEFAULT_MEMBERSHIP]]
InitModerated == InitOpa /\ InitRoutes(ModeratedDb)

\* the owner's requests to make u3 a moderator and to remove or ban the
\* moderator u2, and u2's request to leave, two at a time
ModeratorRequests ==
    {r \in CommunityRequests :
        \/ r.op = "addModerator" /\ r.uid = "u1" /\ r.userId = "u3" /\ r.role = "moderator"
        \/ r.op \in {"removeModerator", "ban"} /\ r.uid = "u1" /\ r.userId = "u2"
        \/ r.op = "leave" /\ r.uid = "u2"}
NextModerators == NextCommunity({1, 2}, ModeratorRequests)
SpecModerators == InitModerated /\ [][NextModerators]_vars

\* the users whose membership role is owner, moderator or admin
Moderators == {u \in Users : RoleOf(db, u) \in {"owner", "moderator", "admin"}}

\* C27: the community's moderatorIds always equals the set of users whose
\* membership role in it is owner, moderator or admin, in every interleaving
\* of add-moderator, remove-moderator, ban and leave requests, a moderator's
\* leave that overlaps another user's promotion included.
C27_ModeratorIdsMatchRoles ==
    db.community.exists => db.community.moderatorIds = Moderators

\* C28: a policy response that arrives after clearCache() for a request issued
\* before the clear is not stored: from a clear until the next check begins,
\* every policy call that settles belongs to a request issued before the
\* clear, so it leaves the cache as it is and the cache stays empty, and the
\* check that begins next is served no decision from the cache.
C28_NoStoreAfterClear ==
    /\ [][\A p \in Procs : \A i \in 1..MaxBatch :
             (cleared /\ Settles(p, i)) => cache' = cache]_vars
    /\ [](cleared => cache = EmptyMap)

\* C29: a report's resolution is written at most once: in every execution,
\* two overlapping PATCH requests included, once the report's status is
\* resolved or dismissed its status, resolvedBy and resolutionNote never
\* change again and every PATCH that reads the report from then on is
\* answered with a conflict.
C29_ResolutionWrittenOnce ==
    [][db.report.status \in Resolved =>
          /\ db'.report = db.report
          /\ \A p \in Procs :
                (run[p].op = "resolve" /\ run[p].at = "report" /\ run'[p] # run[p])
                    => (run'[p].at = "done" /\ run'[p].status = 409)]_vars

====
